---- MODULE Spec2Model ----
(***************************************************************************)
(* A model of the command handlers and the keyword-argument grammar of the *)
(* `reason` paper manager: mark / unmark / current (cmd/mark.rs), vimwiki  *)
(* (cmd/vimwiki.rs), Paper::from_args / Paper::apply_from_args and        *)
(* Paper::wikipath (paper.rs), PaperFilter (filter.rs).                    *)
(*                                                                         *)
(* Strings are sequences of one-character strings, so that split(',') and  *)
(* trim() are computed and not assumed.  Option<T> is a sequence of length *)
(* zero (None) or one (Some).                                              *)
(***************************************************************************)
EXTENDS Integers, Sequences, FiniteSets, TLC

VARIABLES
    papers,        \* state.papers: the paper store, a sequence of Paper
    wikifiles,     \* the files that exist in config.storage.wiki_dir
    editor_batch,  \* config.output.editor_batch of the running vimwiki
    pc,            \* where the running handler stands: idle, confirm, done
    cmd,           \* the command whose handler runs
    input,         \* its CommandInput: [papers, args]
    paper_list,    \* the resolved selection (paper_list / selected)
    wikis,         \* vimwiki's local vector of wiki paths
    prompt,        \* the confirmation prompt on screen, if any
    answers,       \* the answers the user gave to this command's prompts
    output,        \* what the handler returned, if it has returned
    spawned,       \* the editor processes this command spawned
    papers0,       \* the store when the handler was entered
    wikifiles0,    \* the wiki files when the handler was entered
    ncmds,         \* how many handlers were entered so far
    line,          \* the command line being executed: its segments' arguments
    seg,           \* how many segments of the line were dispatched
    lineres,       \* what the line ended with, once it has ended
    lastw,         \* history: for each paper the progress value given by the
                   \* last mark, unmark or current entered for it, if any
    args,          \* the argument list given to from_args / apply_from_args
    paper,         \* the paper apply_from_args is called on
    paper0,        \* that paper before the call
    result,        \* the Result the call returned
    stage,         \* ready, applied (apply_from_args ran), built (from_args ran),
                   \* parsed, merged, matched (the PaperFilter functions ran)
    filters        \* the filters given to PaperFilter::merge

cmdvars == <<papers, wikifiles, editor_batch, pc, cmd, input, paper_list, wikis,
             prompt, answers, output, spawned, papers0, wikifiles0, ncmds,
             line, seg, lineres, lastw>>
pipevars == <<line, seg, lineres>>
argvars == <<args, paper, paper0, result, stage, filters>>
vars == <<cmdvars, argvars>>

\* ------------------------------------------------------------------ bounds
NumPapers == 3
MaxSel == 2
MaxCmds == 1
MaxArgs == 4

\* ----------------------------------------------------------------- strings
None == <<>>
Some(x) == <<x>>

K_as == <<"a", "s">>
K_by == <<"b", "y">>
K_by1 == <<"b", "y", "1">>
K_at == <<"a", "t">>
K_on == <<"o", "n">>
K_in == <<"i", "n">>
K_file == <<"@">>
K_is == <<"i", "s">>
K_not == <<"n", "o", "t">>
K_title == <<"_">>

Range(s) == {s[i] : i \in 1..Len(s)}

\* Result<_, Fallacy>
Err(kind, what) == [ok |-> FALSE, kind |-> kind, what |-> what]

\* ---------------------------------------------------------------- the store
ProgressValues == <<"Unread", "InProgress", "Read">>

Titles == << <<"t">>, <<"s">> >>

NewPaper(i) ==
    [title |-> Titles[(i % 2) + 1],
     nickname |-> IF i % 3 = 0 THEN Some(<<"n">>) ELSE None,
     authors |-> << <<"a">> >>,
     venue |-> <<"v">>,
     year |-> <<"y">>,
     filepath |-> None,
     labels |-> {},
     notepath |-> None,
     wikipath |-> IF i % 3 = 1 THEN None
                  ELSE Some([stem |-> Titles[(i % 2) + 1], n |-> i]),
     progress |-> ProgressValues[(i % 3) + 1]]

\* ------------------------------------------------------------------ filter
EmptyFilter ==
    [title |-> <<>>, nickname |-> <<>>, author |-> <<>>,
     first_author |-> <<>>, venue |-> <<>>, year |-> <<>>]

FilterKeywords == {K_as, K_by, K_by1, K_at, K_on, K_in}

FilterPlace_OnIsTitle(arg) ==
    CASE arg = K_as -> "nickname"
      [] arg = K_by -> "author"
      [] arg = K_by1 -> "first_author"
      [] arg = K_at -> "venue"
      [] arg = K_in -> "year"
      [] OTHER -> "title"

FilterPlace(arg) ==
    CASE arg = K_as -> "nickname"
      [] arg = K_by -> "author"
      [] arg = K_by1 -> "first_author"
      [] arg \in {K_at, K_on} -> "venue"
      [] arg = K_in -> "year"
      [] OTHER -> "title"

\* Regex::new(item): the one pattern of the model that does not compile.
RegexValid(item) == item # <<"(">>

RECURSIVE FilterScan(_, _, _)
FilterScan(as, i, filter) ==
    IF i > Len(as) THEN [ok |-> TRUE, filter |-> filter]
    ELSE LET arg == as[i]
             isKw == arg \in FilterKeywords
             hasItem == (~isKw) \/ i + 1 <= Len(as)
             item == IF isKw THEN as[i + 1] ELSE arg
         IN  IF ~hasItem THEN Err("FilterKeywordNoMatch", arg)
             ELSE IF ~RegexValid(item) THEN Err("FilterBuildFailed", item)
             ELSE FilterScan(as, IF isKw THEN i + 2 ELSE i + 1,
                             [filter EXCEPT ![FilterPlace(arg)] = Append(@, item)])

PaperFilter_from_args(as) == FilterScan(as, 1, EmptyFilter)

matches(filter, p) == FALSE

\* crate::cmd::ls::execute: the listing over the whole store.
ls_execute(inp, ps) ==
    LET f == PaperFilter_from_args(Tail(inp.args))
    IN  IF ~f.ok THEN f
        ELSE [ok |-> TRUE, kind |-> "Papers",
              list |-> SelectSeq([i \in 1..Len(ps) |-> i],
                                 LAMBDA i : matches(f.filter, ps[i]))]

\* `match input.papers { Some(list) => list, None => ls::execute(..)? }`
ResolveInput(inp, ps) ==
    IF inp.papers # None THEN [ok |-> TRUE, kind |-> "Papers", list |-> inp.papers[1]]
    ELSE ls_execute(inp, ps)

\* ------------------------------------------------------- Paper::wikipath
\* utils::as_filename: the file stem made from a nickname or a title.
as_filename(s) == s

\* utils::make_unique_path: the first of stem, stem with 1 appended, ... that
\* names no existing file.
make_unique_path(files, stem) ==
    LET free == {k \in 0..Cardinality(files) : [stem |-> stem, n |-> k] \notin files}
    IN  [stem |-> stem, n |-> CHOOSE k \in free : \A j \in free : k <= j]

\* Paper::wikipath(&mut self, config, create); `fail` is whether File::create
\* fails when it is reached.  Returns the paper and the directory afterwards.
wikipath(p, create, files, fail) ==
    LET has == p.wikipath # None
        stem == IF p.nickname # None THEN as_filename(p.nickname[1])
                ELSE as_filename(p.title)
        wiki == IF has THEN p.wikipath[1] ELSE make_unique_path(files, stem)
        q == IF has \/ ~create THEN p ELSE [p EXCEPT !.wikipath = Some(wiki)]
    IN  IF has /\ wiki \in files
        THEN [ok |-> TRUE, path |-> Some(wiki), paper |-> p, files |-> files]
        ELSE IF ~create
        THEN [ok |-> TRUE, path |-> None, paper |-> p, files |-> files]
        ELSE IF fail
        THEN [ok |-> FALSE, path |-> None, paper |-> q, files |-> files]
        ELSE [ok |-> TRUE, path |-> Some(wiki), paper |-> q,
              files |-> files \cup {wiki}]

\* ------------------------------------------------------------ utils::confirm
\* confirm(message, default): Ok(()) when the user accepts, the cancellation
\* error when the user declines.
confirm(ans) == IF ans THEN [ok |-> TRUE] ELSE Err("Cancelled", <<>>)

\* ------------------------------------------------------- mark/unmark/current
\* The loop, were it to stop after the first index.
SetProgress_FirstOnly(ps, list, prog) ==
    IF list = <<>> THEN ps ELSE [ps EXCEPT ![Head(list)].progress = prog]

\* `for ind in paper_list.0 { state.papers[ind].progress = ...; }`
RECURSIVE SetProgress(_, _, _)
SetProgress(ps, list, prog) ==
    IF list = <<>> THEN ps
    ELSE SetProgress([ps EXCEPT ![Head(list)].progress = prog], Tail(list), prog)

Message(num_paper, what) ==
    [ok |-> TRUE, kind |-> "Message", n |-> num_paper,
     noun |-> IF num_paper # 1 THEN "papers" ELSE "paper", what |-> what]

CmdProgress_UnmarkReads(c) ==
    CASE c = "mark" -> "Read" [] c = "unmark" -> "Read" [] c = "current" -> "InProgress"

CmdProgress(c) ==
    CASE c = "mark" -> "Read" [] c = "unmark" -> "Unread" [] c = "current" -> "InProgress"

CmdWhat(c) ==
    CASE c = "mark" -> "finished" [] c = "unmark" -> "unread"
      [] c = "current" -> "currently reading"

CmdQuestion(c) ==
    CASE c = "mark" -> "read" [] c = "unmark" -> "unread"
      [] c = "current" -> "currently reading" [] c = "vimwiki" -> "Open wikis"

CmdDefault(c) == c = "vimwiki"

NeedsConfirm_AtLeastOne(num_paper) == num_paper >= 1

\* `if num_paper > 1 { confirm(..)?; }`
NeedsConfirm(num_paper) == num_paper > 1

\* A handler is entered: its input is bound and the store is remembered.
Enter(c, inp) ==
    /\ pc \in {"idle", "done"}
    /\ ncmds' = ncmds + 1
    /\ cmd' = c
    /\ input' = inp
    /\ papers0' = papers
    /\ wikifiles0' = wikifiles
    /\ answers' = <<>>
    /\ UNCHANGED argvars

\* The loop and the returned message of mark / unmark / current, from the
\* store `ps` with the selection `list`.
MarkTail(c, ps, list) ==
    /\ papers' = SetProgress(ps, list, CmdProgress(c))
    /\ output' = Some(Message(Len(list), CmdWhat(c)))
    /\ pc' = "done"
    /\ prompt' = None

\* mark::execute, unmark::execute and current::execute up to the point where
\* they return or block in confirm().
MarkHead(c, inp) ==
    /\ UNCHANGED editor_batch
    /\ wikis' = <<>>
    /\ spawned' = <<>>
    /\ UNCHANGED wikifiles
    /\ LET r == ResolveInput(inp, papers)
       IN  IF ~r.ok
           THEN /\ output' = Some(r)
                /\ pc' = "done"
                /\ paper_list' = <<>>
                /\ prompt' = None
                /\ UNCHANGED papers
           ELSE /\ paper_list' = r.list
                /\ IF NeedsConfirm(Len(r.list))
                   THEN /\ prompt' = Some([question |-> CmdQuestion(c),
                                           n |-> Len(r.list),
                                           default |-> CmdDefault(c)])
                        /\ pc' = "confirm"
                        /\ output' = None
                        /\ UNCHANGED papers
                   ELSE MarkTail(c, papers, r.list)

mark_execute(inp) ==
    /\ Enter("mark", inp)
    /\ MarkHead("mark", inp)

unmark_execute(inp) ==
    /\ Enter("unmark", inp)
    /\ MarkHead("unmark", inp)

current_execute(inp) ==
    /\ Enter("current", inp)
    /\ MarkHead("current", inp)

\* ------------------------------------------------------------------ vimwiki
\* `for i in selected { wikis.push(state.papers[i].wikipath(config, true)?.unwrap()); }`
\* failAt is the position of the selection at which File::create fails (0: none).
RECURSIVE BuildWikis(_, _, _, _, _, _)
BuildWikis(ps, files, list, k, failAt, acc) ==
    IF k > Len(list) THEN [ok |-> TRUE, papers |-> ps, files |-> files, wikis |-> acc]
    ELSE LET i == list[k]
             r == wikipath(ps[i], TRUE, files, k = failAt)
             ps2 == [ps EXCEPT ![i] = r.paper]
         IN  IF ~r.ok
             THEN [ok |-> FALSE, papers |-> ps2, files |-> r.files, wikis |-> acc]
             ELSE BuildWikis(ps2, r.files, list, k + 1, failAt, Append(acc, r.path[1]))

\* spawn(build_editor_command(wikis, config), block): the editor is started on
\* the paths and, when block is set, waited for.  A start that fails is only
\* reported on the terminal.
spawn(paths, block) == [paths |-> paths, block |-> block]

\* "Open wikis."
OpenWikis(ws, batch) ==
    IF batch THEN << spawn(ws, TRUE) >>
    ELSE [k \in 1..Len(ws) |-> spawn(<< ws[k] >>, FALSE)]

VimwikiTail(ws, batch) ==
    /\ spawned' = OpenWikis(ws, batch)
    /\ output' = Some([ok |-> TRUE, kind |-> "None"])
    /\ pc' = "done"
    /\ prompt' = None

\* vimwiki::execute up to the point where it returns or blocks in confirm().
vimwiki_execute(inp, batch, failAt) ==
    /\ Enter("vimwiki", inp)
    /\ editor_batch' = batch
    /\ LET r == ResolveInput(inp, papers)
       IN  IF ~r.ok
           THEN /\ output' = Some(r)
                /\ pc' = "done"
                /\ paper_list' = <<>>
                /\ wikis' = <<>>
                /\ prompt' = None
                /\ spawned' = <<>>
                /\ UNCHANGED <<papers, wikifiles>>
           ELSE LET b == BuildWikis(papers, wikifiles, r.list, 1, failAt, <<>>)
                IN  /\ paper_list' = r.list
                    /\ papers' = b.papers
                    /\ wikifiles' = b.files
                    /\ wikis' = b.wikis
                    /\ IF ~b.ok
                       THEN /\ output' = Some(Err("Io", <<>>))
                            /\ pc' = "done"
                            /\ prompt' = None
                            /\ spawned' = <<>>
                       ELSE IF NeedsConfirm(Len(r.list))
                       THEN /\ prompt' = Some([question |-> CmdQuestion("vimwiki"),
                                               n |-> Len(r.list),
                                               default |-> CmdDefault("vimwiki")])
                            /\ pc' = "confirm"
                            /\ output' = None
                            /\ spawned' = <<>>
                       ELSE VimwikiTail(b.wikis, batch)

\* --------------------------------------------------------------------- sort
\* The characters of the model in the order of their bytes, which is the
\* order String compares by.
Alphabet ==
    <<" ", "(", ",", "1", "@", "_", "a", "b", "c", "d", "e", "f", "g", "h", "i", "j",
      "k", "l", "m", "n", "o", "p", "q", "r", "s", "t", "u", "v", "w", "x", "y", "z">>

CharCode(c) == CHOOSE k \in 1..Len(Alphabet) : Alphabet[k] = c

\* a < b for two String values
RECURSIVE StrLess(_, _)
StrLess(a, b) ==
    IF b = <<>> THEN FALSE
    ELSE IF a = <<>> THEN TRUE
    ELSE IF Head(a) = Head(b) THEN StrLess(Tail(a), Tail(b))
    ELSE CharCode(Head(a)) < CharCode(Head(b))

\* (&state.papers[i].title, i) < (&state.papers[j].title, j)
KeyLess(ps, i, j) ==
    \/ StrLess(ps[i].title, ps[j].title)
    \/ ps[i].title = ps[j].title /\ i < j

RECURSIVE InKeyOrder_IndexOnly(_, _)
InKeyOrder_IndexOnly(ps, keep) ==
    IF keep = {} THEN <<>>
    ELSE LET m == CHOOSE i \in keep : \A j \in keep : i <= j
         IN  <<m>> \o InKeyOrder_IndexOnly(ps, keep \ {m})

\* `for (_, id) in keep { sorted.push(id); }`: the ids of the BTreeSet in the
\* order of their (title, id) keys.
RECURSIVE InKeyOrder(_, _)
InKeyOrder(ps, keep) ==
    IF keep = {} THEN <<>>
    ELSE LET m == CHOOSE i \in keep : \A j \in keep \ {i} : KeyLess(ps, i, j)
         IN  <<m>> \o InKeyOrder(ps, keep \ {m})

W_unread == <<"u", "n", "r", "e", "a", "d">>
W_current == <<"c", "u", "r", "r", "e", "n", "t">>
W_read == <<"r", "e", "a", "d">>

\* impl FromStr for ReadingProgress
ParseProgress(s) ==
    CASE s = W_unread -> "Unread"
      [] s = W_current -> "InProgress"
      [] s = W_read -> "Read"
      [] OTHER -> "Unread"

Papers(list) == [ok |-> TRUE, kind |-> "Papers", list |-> list]

NoOutput == [ok |-> TRUE, kind |-> "None"]

sort_output_WholeStore(inp, ps) ==
    IF inp.papers = None THEN Err("SetNoPapers", <<>>)
    ELSE Papers([i \in 1..Len(ps) |-> i])

\* What sort::execute returns for an input and a store.
sort_output(inp, ps) ==
    IF inp.papers = None THEN Err("SetNoPapers", <<>>)
    ELSE LET list == inp.papers[1]
         IN  IF Len(inp.args) = 1
             THEN Papers(InKeyOrder(ps, Range(list)))
             ELSE IF Len(inp.args) = 3
             THEN IF inp.args[2] = K_by
                  THEN Papers(SelectSeq(list,
                          LAMBDA id : ps[id].progress = ParseProgress(inp.args[3])))
                  ELSE NoOutput
             ELSE Papers(<<>>)

Returns_Marking(out, list) ==
    /\ output' = Some(out)
    /\ pc' = "done"
    /\ prompt' = None
    /\ paper_list' = list
    /\ wikis' = <<>>
    /\ spawned' = <<>>
    /\ papers' = SetProgress(papers, list, "Read")
    /\ UNCHANGED <<wikifiles, editor_batch>>

\* A handler that neither prompts nor touches the store, the wiki directory
\* or a process returns `out`; `list` is the list it worked on.
Returns(out, list) ==
    /\ output' = Some(out)
    /\ pc' = "done"
    /\ prompt' = None
    /\ paper_list' = list
    /\ wikis' = <<>>
    /\ spawned' = <<>>
    /\ UNCHANGED <<papers, wikifiles, editor_batch>>

sort_execute(inp) ==
    /\ Enter("sort", inp)
    /\ Returns(sort_output(inp, papers),
               IF inp.papers = None THEN <<>> ELSE inp.papers[1])

\* ---------------------------------------------------------------------- man
ManSubjects ==
    {<<"c", "o", "m", "m", "a", "n", "d">>,
     <<"c", "d">>,
     <<"c", "u", "r", "l">>,
     <<"e", "d">>,
     <<"e", "x", "i", "t">>,
     <<"l", "s">>,
     <<"m", "a", "n">>,
     <<"m", "a", "r", "k">>,
     <<"o", "p", "e", "n">>,
     <<"p", "r", "i", "n", "t", "f">>,
     <<"p", "w", "d">>,
     <<"r", "m">>,
     <<"s", "e", "t">>,
     <<"t", "o", "u", "c", "h">>,
     <<"v", "i", "m", "w", "i", "k", "i">>,
     <<"w", "c">>,
     <<"c", "o", "n", "f", "i", "g">>,
     <<"f", "i", "l", "t", "e", "r">>,
     <<"p", "a", "p", "e", "r">>}

man_output_NoSubject(inp) ==
    IF Len(inp.args) # 2 THEN Err("ManInvalidArgument", <<>>)
    ELSE IF inp.args[2] \in ManSubjects
    THEN [ok |-> TRUE, kind |-> "Message", man |-> inp.args[2]]
    ELSE Err("ManUnknownSubject", <<>>)

\* What man::execute returns.
man_output(inp) ==
    IF Len(inp.args) # 2 THEN Err("ManInvalidArgument", <<>>)
    ELSE IF inp.args[2] \in ManSubjects
    THEN [ok |-> TRUE, kind |-> "Message", man |-> inp.args[2]]
    ELSE Err("ManUnknownSubject", inp.args[2])

man_execute(inp) ==
    /\ Enter("man", inp)
    /\ Returns(man_output(inp), <<>>)

\* --------------------------------------------------- the prompt is answered
\* The answer, were the `?` after confirm(..) missing: the handler goes on
\* whatever the user said.
confirm_answer_Ignored(ans) ==
    /\ pc = "confirm"
    /\ answers' = Append(answers, ans)
    /\ UNCHANGED <<editor_batch, cmd, input, paper_list, wikis, papers0,
                   wikifiles0, ncmds, wikifiles, pipevars, lastw, argvars>>
    /\ IF cmd = "vimwiki"
       THEN /\ VimwikiTail(wikis, editor_batch)
            /\ UNCHANGED papers
       ELSE /\ MarkTail(cmd, papers, paper_list)
            /\ UNCHANGED spawned

\* confirm(..)? returns: the handler goes on after the prompt, or returns the
\* cancellation error.
confirm_answer(ans) ==
    /\ pc = "confirm"
    /\ answers' = Append(answers, ans)
    /\ UNCHANGED <<editor_batch, cmd, input, paper_list, wikis, papers0,
                   wikifiles0, ncmds, wikifiles, pipevars, lastw, argvars>>
    /\ LET r == confirm(ans)
       IN  IF ~r.ok
           THEN /\ output' = Some(r)
                /\ pc' = "done"
                /\ prompt' = None
                /\ UNCHANGED <<papers, spawned>>
           ELSE IF cmd = "vimwiki"
           THEN /\ VimwikiTail(wikis, editor_batch)
                /\ UNCHANGED papers
           ELSE /\ MarkTail(cmd, papers, paper_list)
                /\ UNCHANGED spawned

\* ------------------------------------------------------------------ inputs
C_mark == <<"m", "a", "r", "k">>
C_unmark == <<"u", "n", "m", "a", "r", "k">>
C_current == <<"c", "u", "r", "r", "e", "n", "t">>
C_vimwiki == <<"v", "i", "m", "w", "i", "k", "i">>
C_sort == <<"s", "o", "r", "t">>
C_man == <<"m", "a", "n">>
C_ls == <<"l", "s">>

RECURSIVE SeqsUpTo(_, _)
SeqsUpTo(S, n) ==
    IF n = 0 THEN {<<>>}
    ELSE LET shorter == SeqsUpTo(S, n - 1)
         IN  shorter \cup {Append(s, x) : s \in shorter, x \in S}

\* Piped lists hold indices of the store; without a pipe the arguments are a
\* filter for ls.
PipedLists == SeqsUpTo(1..NumPapers, MaxSel)

FilterArgs == {<<>>, << <<"t">> >>, << K_by >>, << <<"(">> >>}

Inputs(name) ==
    {[papers |-> Some(l), args |-> <<name>>] : l \in PipedLists}
    \cup {[papers |-> None, args |-> <<name>> \o f] : f \in FilterArgs}

\* sort: with or without a piped list; alone, `by` and a status, an
\* unrecognised three-argument form, or two arguments.
SortArgs ==
    {<<C_sort>>, <<C_sort, K_by, W_read>>, <<C_sort, K_by, W_current>>,
     <<C_sort, K_by, <<"x">> >>, <<C_sort, <<"x">>, W_read>>, <<C_sort, <<"x">> >>}

SortInputs ==
    {[papers |-> l, args |-> a] : l \in {None} \cup {Some(x) : x \in PipedLists},
                                 a \in SortArgs}

ManInputs ==
    {[papers |-> None, args |-> a] :
        a \in {<<C_man>>, <<C_man, C_mark>>, <<C_man, C_sort>>, <<C_man, C_ls, C_ls>>}}

\* --------------------------------------------------------- the command Spec
\* No line is being executed.
PipeIdle ==
    /\ line = <<>>
    /\ seg = 0
    /\ lineres = None

\* No mark, unmark or current was entered yet for any paper of the store.
NoneWritten == lastw = [i \in 1..Len(papers) |-> None]

\* A command entered on a line of its own, one of at most MaxCmds.
Alone == ncmds < MaxCmds /\ UNCHANGED <<pipevars, lastw>>

ArgsIdle ==
    /\ args = <<>>
    /\ paper = NewPaper(1)
    /\ paper0 = NewPaper(1)
    /\ result = None
    /\ stage = "off"
    /\ filters = <<>>

Init ==
    /\ papers = [i \in 1..NumPapers |-> NewPaper(i)]
    /\ wikifiles = {papers[i].wikipath[1] : i \in {j \in 1..NumPapers : j % 3 = 2}}
    /\ editor_batch = FALSE
    /\ pc = "idle"
    /\ cmd = "none"
    /\ input = [papers |-> None, args |-> <<>>]
    /\ paper_list = <<>>
    /\ wikis = <<>>
    /\ prompt = None
    /\ answers = <<>>
    /\ output = None
    /\ spawned = <<>>
    /\ papers0 = papers
    /\ wikifiles0 = wikifiles
    /\ ncmds = 0
    /\ PipeIdle
    /\ NoneWritten
    /\ ArgsIdle

Next ==
    \/ \E inp \in Inputs(C_mark) : Alone /\ mark_execute(inp)
    \/ \E inp \in Inputs(C_unmark) : Alone /\ unmark_execute(inp)
    \/ \E inp \in Inputs(C_current) : Alone /\ current_execute(inp)
    \/ \E inp \in Inputs(C_vimwiki), batch \in BOOLEAN, failAt \in 0..MaxSel :
          Alone /\ vimwiki_execute(inp, batch, failAt)
    \/ \E inp \in SortInputs : Alone /\ sort_execute(inp)
    \/ \E inp \in ManInputs : Alone /\ man_execute(inp)
    \/ \E ans \in BOOLEAN : confirm_answer(ans)

Spec == Init /\ [][Next]_vars

\* ------------------------------------------------------- str::split, trim
\* s.split(','): the pieces between the separators, empty pieces included.
RECURSIVE SplitFrom(_, _, _, _)
SplitFrom(s, i, cur, acc) ==
    IF i > Len(s) THEN Append(acc, cur)
    ELSE IF s[i] = "," THEN SplitFrom(s, i + 1, <<>>, Append(acc, cur))
    ELSE SplitFrom(s, i + 1, Append(cur, s[i]), acc)

split(s) == SplitFrom(s, 1, <<>>, <<>>)

\* s.trim(): without the leading and the trailing white space.
RECURSIVE trim_start(_)
trim_start(s) == IF s # <<>> /\ Head(s) = " " THEN trim_start(Tail(s)) ELSE s

RECURSIVE trim_end(_)
trim_end(s) ==
    IF s # <<>> /\ s[Len(s)] = " " THEN trim_end(SubSeq(s, 1, Len(s) - 1)) ELSE s

trim(s) == trim_end(trim_start(s))

\* `.split(',').map(|s| s.trim().to_string())`, collected into a Vec / a HashSet
split_trim(s) == [k \in 1..Len(split(s)) |-> trim(split(s)[k])]

\* ---------------------------------------------------------------- HashMap
EmptyMap == [k \in {} |-> None]

insert(map, key, value) ==
    [k \in DOMAIN map \cup {key} |-> IF k = key THEN value ELSE map[k]]

contains_key(map, key) == key \in DOMAIN map

\* -------------------------------------------------------- Paper::from_args
BuilderKeywords == {K_as, K_by, K_at, K_in, K_file, K_is}

\* "Collect a mapping of keyword -> Option<argument>."
RECURSIVE FromArgsScan(_, _, _)
FromArgsScan(as, i, map) ==
    IF i > Len(as) THEN [ok |-> TRUE, map |-> map]
    ELSE LET arg == as[i]
         IN  IF arg \in BuilderKeywords
             THEN IF contains_key(map, arg)
                  THEN Err("PaperDuplicateField", arg)
                  ELSE FromArgsScan(as, i + 2,
                           insert(map, arg,
                                  IF i + 1 <= Len(as) THEN Some(as[i + 1]) ELSE None))
             ELSE IF contains_key(map, K_title)
                  THEN Err("PaperDuplicateField", <<"title">>)
                  ELSE FromArgsScan(as, i + 1, insert(map, K_title, Some(arg)))

\* The table of (keyword, field_name, required), in the order of the source.
FieldTable ==
    << [keyword |-> K_by, field_name |-> "authors", required |-> TRUE],
       [keyword |-> K_at, field_name |-> "venue", required |-> TRUE],
       [keyword |-> K_in, field_name |-> "year", required |-> TRUE],
       [keyword |-> K_title, field_name |-> "title", required |-> TRUE],
       [keyword |-> K_as, field_name |-> "nickname", required |-> FALSE],
       [keyword |-> K_file, field_name |-> "filepath", required |-> FALSE],
       [keyword |-> K_is, field_name |-> "labels", required |-> FALSE] >>

\* Whether the map holds an argument for the keyword: Some(Some(string)).
HasArgument(map, keyword) == contains_key(map, keyword) /\ map[keyword] # None

\* format!("{}({})", field_name, keyword)
MissingEntry(row) == <<row.field_name, "(">> \o row.keyword \o <<")">>

\* The vector, were the loop to stop at the first missing field.
MissingFields_FirstOnly(map) ==
    LET miss == SelectSeq(FieldTable,
                          LAMBDA row : row.required /\ ~HasArgument(map, row.keyword))
    IN  IF miss = <<>> THEN <<>> ELSE << MissingEntry(miss[1]) >>

\* The vector `missing` after the loop over the table.
MissingFields(map) ==
    LET miss == SelectSeq(FieldTable,
                          LAMBDA row : row.required /\ ~HasArgument(map, row.keyword))
    IN  [k \in 1..Len(miss) |-> MissingEntry(miss[k])]

\* missing.join(", ")
RECURSIVE join(_)
join(parts) ==
    IF parts = <<>> THEN <<>>
    ELSE IF Len(parts) = 1 THEN parts[1]
    ELSE parts[1] \o <<", ">> \o join(Tail(parts))

\* fields.remove(name): the argument given for the field's keyword, if any
Field(map, keyword) == IF HasArgument(map, keyword) THEN map[keyword] ELSE None

MakePaper_Untrimmed(map) ==
    [title |-> Field(map, K_title)[1],
     nickname |-> Field(map, K_as),
     authors |-> split(Field(map, K_by)[1]),
     venue |-> Field(map, K_at)[1],
     year |-> Field(map, K_in)[1],
     labels |-> IF Field(map, K_is) = None THEN {}
                ELSE Range(split_trim(Field(map, K_is)[1])),
     filepath |-> Field(map, K_file),
     notepath |-> None,
     wikipath |-> None,
     progress |-> "Unread"]

\* "Make paper fields."
MakePaper(map) ==
    [title |-> Field(map, K_title)[1],
     nickname |-> Field(map, K_as),
     authors |-> split_trim(Field(map, K_by)[1]),
     venue |-> Field(map, K_at)[1],
     year |-> Field(map, K_in)[1],
     labels |-> IF Field(map, K_is) = None THEN {}
                ELSE Range(split_trim(Field(map, K_is)[1])),
     filepath |-> Field(map, K_file),
     notepath |-> None,
     wikipath |-> None,
     progress |-> "Unread"]

\* Paper::from_args(args): args[1] is the command and is skipped.
from_args(as) ==
    LET scan == FromArgsScan(as, 2, EmptyMap)
    IN  IF ~scan.ok THEN scan
        ELSE IF MissingFields(scan.map) # <<>>
        THEN Err("PaperMissingFields", join(MissingFields(scan.map)))
        ELSE [ok |-> TRUE, paper |-> MakePaper(scan.map)]

\* -------------------------------------------------- Paper::apply_from_args
UpdaterKeywords == {K_as, K_by, K_at, K_in, K_is, K_not}

\* The scan, were a repeated keyword to overwrite the earlier argument.
RECURSIVE ApplyScan_Overwrite(_, _, _)
ApplyScan_Overwrite(as, i, map) ==
    IF i > Len(as) THEN [ok |-> TRUE, map |-> map]
    ELSE LET arg == as[i]
         IN  IF arg \in UpdaterKeywords
             THEN IF i + 1 <= Len(as)
                  THEN ApplyScan_Overwrite(as, i + 2, insert(map, arg, as[i + 1]))
                  ELSE ApplyScan_Overwrite(as, i + 1, insert(map, K_title, arg))
             ELSE IF contains_key(map, K_title)
                  THEN Err("PaperDuplicateField", <<"title">>)
                  ELSE ApplyScan_Overwrite(as, i + 1, insert(map, K_title, arg))

\* "Collect a mapping of keyword -> Option<argument>."
RECURSIVE ApplyScan(_, _, _)
ApplyScan(as, i, map) ==
    IF i > Len(as) THEN [ok |-> TRUE, map |-> map]
    ELSE LET arg == as[i]
         IN  IF arg \in UpdaterKeywords
             THEN IF contains_key(map, arg)
                  THEN Err("PaperDuplicateField", arg)
                  ELSE IF i + 1 <= Len(as)
                  THEN ApplyScan(as, i + 2, insert(map, arg, as[i + 1]))
                  ELSE ApplyScan(as, i + 1, insert(map, K_title, arg))
             ELSE IF contains_key(map, K_title)
                  THEN Err("PaperDuplicateField", <<"title">>)
                  ELSE ApplyScan(as, i + 1, insert(map, K_title, arg))

\* `for label in labels.split(',') { self.labels.insert(label.trim()..) }`
InsertLabels(labels, value) == labels \cup Range(split_trim(value))

\* `for label in labels.split(',') { self.labels.remove(label.trim()..) }`
RemoveLabels(labels, value) == labels \ Range(split_trim(value))

\* The changes, were `not` applied before `is`.
ApplyChanges_NotFirst(p, map) ==
    LET p1 == IF contains_key(map, K_title) THEN [p EXCEPT !.title = map[K_title]] ELSE p
        p2 == IF contains_key(map, K_as) THEN [p1 EXCEPT !.nickname = Some(map[K_as])]
              ELSE p1
        p3 == IF contains_key(map, K_by)
              THEN [p2 EXCEPT !.authors = split_trim(map[K_by])] ELSE p2
        p4 == IF contains_key(map, K_at) THEN [p3 EXCEPT !.venue = map[K_at]] ELSE p3
        p5 == IF contains_key(map, K_in) THEN [p4 EXCEPT !.year = map[K_in]] ELSE p4
        p6 == IF contains_key(map, K_not)
              THEN [p5 EXCEPT !.labels = RemoveLabels(@, map[K_not])] ELSE p5
        p7 == IF contains_key(map, K_is)
              THEN [p6 EXCEPT !.labels = InsertLabels(@, map[K_is])] ELSE p6
    IN  p7

\* "Apply changes.": title, nickname, authors, venue, year, is, not, in turn.
ApplyChanges(p, map) ==
    LET p1 == IF contains_key(map, K_title) THEN [p EXCEPT !.title = map[K_title]] ELSE p
        p2 == IF contains_key(map, K_as) THEN [p1 EXCEPT !.nickname = Some(map[K_as])]
              ELSE p1
        p3 == IF contains_key(map, K_by)
              THEN [p2 EXCEPT !.authors = split_trim(map[K_by])] ELSE p2
        p4 == IF contains_key(map, K_at) THEN [p3 EXCEPT !.venue = map[K_at]] ELSE p3
        p5 == IF contains_key(map, K_in) THEN [p4 EXCEPT !.year = map[K_in]] ELSE p4
        p6 == IF contains_key(map, K_is)
              THEN [p5 EXCEPT !.labels = InsertLabels(@, map[K_is])] ELSE p5
        p7 == IF contains_key(map, K_not)
              THEN [p6 EXCEPT !.labels = RemoveLabels(@, map[K_not])] ELSE p6
    IN  p7

\* The call, were each field written as soon as its argument is read: at an
\* error the arguments read so far have been applied.
apply_from_args_Eager(p, as) ==
    LET scan == ApplyScan(as, 1, EmptyMap)
        good == {k \in 0..Len(as) : ApplyScan(SubSeq(as, 1, k), 1, EmptyMap).ok}
        last == CHOOSE k \in good : \A j \in good : j <= k
    IN  IF ~scan.ok
        THEN [paper |-> ApplyChanges(p, ApplyScan(SubSeq(as, 1, last), 1, EmptyMap).map),
              result |-> scan]
        ELSE [paper |-> ApplyChanges(p, scan.map), result |-> [ok |-> TRUE]]

\* Paper::apply_from_args(&mut self, args): the paper afterwards and the Result.
apply_from_args(p, as) ==
    LET scan == ApplyScan(as, 1, EmptyMap)
    IN  IF ~scan.ok THEN [paper |-> p, result |-> scan]
        ELSE [paper |-> ApplyChanges(p, scan.map), result |-> [ok |-> TRUE]]

\* ------------------------------------------------------------ the pipeline
\* crate::cmd::ls as a command: the listing is its output.
ls_command(inp) ==
    /\ Enter("ls", inp)
    /\ Returns(ls_execute(inp, papers), <<>>)

\* The names of the static registry that have a handler in the model.
Registry == {C_ls, C_sort, C_mark, C_unmark, C_current, C_vimwiki, C_man}

\* The previous segment, if there is one, has returned a paper list.
Pipeable ==
    \/ seg = 0 /\ pc = "idle"
    \/ /\ seg > 0
       /\ pc = "done"
       /\ output # None
       /\ output[1].ok
       /\ output[1].kind = "Papers"

SegmentInput_NoPipe == [papers |-> None, args |-> line[seg + 1]]

\* Resolve-Input: the first segment has no papers, a later one inherits the
\* Papers output of the segment before it.
SegmentInput ==
    [papers |-> IF seg = 0 THEN None ELSE Some(output[1].list),
     args |-> line[seg + 1]]

\* Dispatch: the next segment of the line goes to the handler of its name.
Dispatch(name) ==
    /\ lineres = None
    /\ seg < Len(line)
    /\ Pipeable
    /\ line[seg + 1][1] = name
    /\ seg' = seg + 1
    /\ UNCHANGED <<line, lineres, lastw>>

\* The line has ended with `res`; no handler runs.
LineEnds(res) ==
    /\ lineres' = Some(res)
    /\ UNCHANGED <<papers, wikifiles, editor_batch, pc, cmd, input, paper_list,
                   wikis, prompt, answers, output, spawned, papers0, wikifiles0,
                   ncmds, line, seg, lastw, argvars>>

\* Dispatch of a name the registry does not have.
UnknownCommand ==
    /\ lineres = None
    /\ seg < Len(line)
    /\ Pipeable
    /\ line[seg + 1][1] \notin Registry
    /\ LineEnds(Err("UnknownCommand", line[seg + 1][1]))

\* A handler returned an error: the line aborts at this segment.
LineAborts ==
    /\ lineres = None
    /\ pc = "done"
    /\ ~output[1].ok
    /\ LineEnds(output[1])

\* Propagate: an output that is not Papers while more segments follow.
LineInvalid ==
    /\ lineres = None
    /\ pc = "done"
    /\ output[1].ok
    /\ output[1].kind # "Papers"
    /\ seg < Len(line)
    /\ LineEnds(Err("InvalidCommand", <<>>))

\* Propagate: the output of the final segment is rendered.
LineRenders ==
    /\ lineres = None
    /\ pc = "done"
    /\ output[1].ok
    /\ seg = Len(line)
    /\ LineEnds(output[1])

MaxSegs == 3

Segments ==
    {<<C_ls>>, <<C_ls, K_by>>, <<C_sort>>, <<C_sort, K_by, W_read>>,
     <<C_sort, <<"x">>, W_read>>, <<C_mark>>, <<C_unmark>>, <<C_current>>,
     <<C_vimwiki>>, <<C_man, C_mark>>, << <<"x">> >>}

Lines == SeqsUpTo(Segments, MaxSegs) \ {<<>>}

InitPipe ==
    /\ papers = [i \in 1..NumPapers |-> NewPaper(i)]
    /\ wikifiles = {papers[i].wikipath[1] : i \in {j \in 1..NumPapers : j % 3 = 2}}
    /\ editor_batch = FALSE
    /\ pc = "idle"
    /\ cmd = "none"
    /\ input = [papers |-> None, args |-> <<>>]
    /\ paper_list = <<>>
    /\ wikis = <<>>
    /\ prompt = None
    /\ answers = <<>>
    /\ output = None
    /\ spawned = <<>>
    /\ papers0 = papers
    /\ wikifiles0 = wikifiles
    /\ ncmds = 0
    /\ line \in Lines
    /\ seg = 0
    /\ lineres = None
    /\ NoneWritten
    /\ ArgsIdle

\* One line is executed, segment by segment.  No segment reaches a prompt:
\* every selection of a line comes from ls.
NextPipe ==
    \/ Dispatch(C_ls) /\ ls_command(SegmentInput)
    \/ Dispatch(C_sort) /\ sort_execute(SegmentInput)
    \/ Dispatch(C_mark) /\ mark_execute(SegmentInput)
    \/ Dispatch(C_unmark) /\ unmark_execute(SegmentInput)
    \/ Dispatch(C_current) /\ current_execute(SegmentInput)
    \/ \E batch \in BOOLEAN :
          Dispatch(C_vimwiki) /\ vimwiki_execute(SegmentInput, batch, 0)
    \/ Dispatch(C_man) /\ man_execute(SegmentInput)
    \/ UnknownCommand
    \/ LineAborts
    \/ LineInvalid
    \/ LineRenders

SpecPipe == InitPipe /\ [][NextPipe]_vars

\* ------------------------------------------- sequences of mark commands
MaxMarks == 2

\* The value each command stands for: mark Read, unmark Unread, current
\* InProgress.
Written(c) ==
    IF c = "mark" THEN "Read" ELSE IF c = "unmark" THEN "Unread" ELSE "InProgress"

\* The command named c is entered for the piped list l, one of at most
\* MaxMarks, and the history notes the value it stands for with the papers
\* of l.
Noted(c, l) ==
    /\ ncmds < MaxMarks
    /\ lastw' = [i \in 1..Len(papers) |->
                    IF i \in Range(l) THEN Some(Written(c)) ELSE lastw[i]]
    /\ UNCHANGED pipevars

Piped(name, l) == [papers |-> Some(l), args |-> <<name>>]

\* mark, unmark and current one after the other, each with a piped list and
\* each confirmed when it prompts.
NextMarks ==
    \/ \E l \in PipedLists : Noted("mark", l) /\ mark_execute(Piped(C_mark, l))
    \/ \E l \in PipedLists : Noted("unmark", l) /\ unmark_execute(Piped(C_unmark, l))
    \/ \E l \in PipedLists : Noted("current", l) /\ current_execute(Piped(C_current, l))
    \/ confirm_answer(TRUE)

SpecMarks == Init /\ [][NextMarks]_vars

\* ------------------------------------------- the argument-grammar Spec
V_a == <<"a">>
V_ab == <<"a", ",", " ", "b">>
C_touch == <<"t", "o", "u", "c", "h">>

Tokens == {K_as, K_by, K_at, K_in, K_file, K_is, K_not, V_a, V_ab}

RECURSIVE Flatten(_)
Flatten(ss) == IF ss = <<>> THEN <<>> ELSE Head(ss) \o Flatten(Tail(ss))

\* The four required items of a paper, to be given in any order.
RequiredItems == << <<V_a>>, <<K_by, V_ab>>, <<K_at, V_a>>, <<K_in, V_a>> >>

Orders == {o \in [1..4 -> 1..4] : \A i, j \in 1..4 : i # j => o[i] # o[j]}

CompleteArgs == {Flatten([k \in 1..4 |-> RequiredItems[o[k]]]) : o \in Orders}

\* Every list of at most MaxArgs tokens, and the complete lists followed by
\* at most MaxArgs - 2 more tokens.
ArgLists ==
    SeqsUpTo(Tokens, MaxArgs)
    \cup {c \o t : c \in CompleteArgs, t \in SeqsUpTo(Tokens, MaxArgs - 2)}

SamplePapers ==
    {NewPaper(1),
     [NewPaper(2) EXCEPT !.nickname = Some(<<"n">>), !.labels = {<<"a">>, <<"c">>},
                         !.filepath = Some(<<"f">>), !.notepath = Some(<<"m">>)]}

CmdIdle ==
    /\ papers = <<>>
    /\ wikifiles = {}
    /\ editor_batch = FALSE
    /\ pc = "off"
    /\ cmd = "none"
    /\ input = [papers |-> None, args |-> <<>>]
    /\ paper_list = <<>>
    /\ wikis = <<>>
    /\ prompt = None
    /\ answers = <<>>
    /\ output = None
    /\ spawned = <<>>
    /\ papers0 = <<>>
    /\ wikifiles0 = {}
    /\ ncmds = 0
    /\ PipeIdle
    /\ NoneWritten

InitArgs ==
    /\ args \in ArgLists
    /\ paper \in SamplePapers
    /\ paper0 = paper
    /\ result = None
    /\ stage = "ready"
    /\ filters = <<>>
    /\ CmdIdle

\* paper.apply_from_args(&args)
ApplyFromArgs ==
    /\ stage = "ready"
    /\ LET r == apply_from_args(paper, args)
       IN  /\ paper' = r.paper
           /\ result' = Some(r.result)
    /\ stage' = "applied"
    /\ UNCHANGED <<args, paper0, filters, cmdvars>>

\* Paper::from_args(args), called with the command name in front
FromArgs ==
    /\ stage = "ready"
    /\ result' = Some(from_args(<<C_touch>> \o args))
    /\ stage' = "built"
    /\ UNCHANGED <<args, paper, paper0, filters, cmdvars>>

NextArgs == ApplyFromArgs \/ FromArgs

SpecArgs == InitArgs /\ [][NextArgs]_vars

\* =================================================================== claims
MarkCmds == {"mark", "unmark", "current"}

Returned == output # None

ReturnedOk == output # None /\ output[1].ok

ReturnedErr(kind) == output # None /\ ~output[1].ok /\ output[1].kind = kind

Prompted == pc = "confirm" \/ answers # <<>>

ProgressOf(ps) == [i \in 1..Len(ps) |-> ps[i].progress]

\* C1: for mark, unmark and current, when the resolved selection has more
\* than one element and the user declines the confirmation, the command has
\* returned the cancellation error and every paper of the store is, in every
\* field, what it was before the command.
C1_DeclinedMarkLeavesStore ==
    (cmd \in MarkCmds /\ Len(paper_list) > 1 /\ answers = <<FALSE>>)
        => /\ pc = "done"
           /\ output = Some(Err("Cancelled", <<>>))
           /\ papers = papers0

\* A declined command whose selection holds a paper the command would change.
C1_Witness ==
    /\ cmd \in MarkCmds
    /\ Len(paper_list) > 1
    /\ answers = <<FALSE>>
    /\ pc = "done"
    /\ \E k \in 1..Len(paper_list) : papers0[paper_list[k]].progress # CmdProgress(cmd)

C3_MarkEffect ==
    (cmd \in MarkCmds /\ pc = "done" /\ ReturnedOk)
        => /\ Len(papers) = Len(papers0)
           /\ \A i \in 1..Len(papers) :
                 /\ i \in Range(paper_list) => papers[i].progress = CmdProgress(cmd)
                 /\ i \notin Range(paper_list) => papers[i].progress = papers0[i].progress
                 /\ papers[i] = [papers0[i] EXCEPT !.progress = papers[i].progress]
           /\ output[1].kind = "Message"
           /\ output[1].n = Len(paper_list)

\* An accepted command over two different papers, both of which it changed,
\* with a paper outside the selection.
C3_Witness ==
    /\ cmd \in MarkCmds
    /\ pc = "done"
    /\ ReturnedOk
    /\ answers = <<TRUE>>
    /\ Len(paper_list) > 1
    /\ \A k \in 1..Len(paper_list) : papers0[paper_list[k]].progress # CmdProgress(cmd)
    /\ \E i \in 1..Len(papers) : i \notin Range(paper_list)

\* C4: when vimwiki resolves a selection of more than one paper and the user
\* declines the confirmation, no paper record has changed (no wikipath was
\* assigned), no wiki file was created and no editor process was spawned.
C4_DeclinedVimwikiLeavesAll ==
    (cmd = "vimwiki" /\ Len(paper_list) > 1 /\ answers = <<FALSE>>)
        => /\ papers = papers0
           /\ wikifiles = wikifiles0
           /\ spawned = <<>>

\* ------------------------------------------------------- the filter Spec
\* PaperFilter::merge(filters): `merged` starts as the default filter and is
\* extended, field by field, with each filter of the slice in turn.
RECURSIVE MergeFrom(_, _, _)
MergeFrom(fs, k, merged) ==
    IF k > Len(fs) THEN merged
    ELSE MergeFrom(fs, k + 1,
                   [title |-> merged.title \o fs[k].title,
                    nickname |-> merged.nickname \o fs[k].nickname,
                    author |-> merged.author \o fs[k].author,
                    first_author |-> merged.first_author \o fs[k].first_author,
                    venue |-> merged.venue \o fs[k].venue,
                    year |-> merged.year \o fs[k].year])

RECURSIVE merge_Prepend(_)
merge_Prepend(fs) ==
    IF fs = <<>> THEN EmptyFilter
    ELSE LET f == Head(fs)
             rest == merge_Prepend(Tail(fs))
         IN  [title |-> rest.title \o f.title,
              nickname |-> rest.nickname \o f.nickname,
              author |-> rest.author \o f.author,
              first_author |-> rest.first_author \o f.first_author,
              venue |-> rest.venue \o f.venue,
              year |-> rest.year \o f.year]

merge(fs) == MergeFrom(fs, 1, EmptyFilter)

MaxFilterArgs == 4
MaxFilters == 3

P_t == <<"t">>
P_bad == <<"(">>

FilterTokens == FilterKeywords \cup {P_t, P_bad}

FilterArgLists == SeqsUpTo(FilterTokens, MaxFilterArgs)

SampleFilters ==
    {EmptyFilter,
     [EmptyFilter EXCEPT !.title = <<P_t>>],
     [EmptyFilter EXCEPT !.title = << <<"s">> >>, !.author = << <<"a">>, <<"b">> >>],
     [EmptyFilter EXCEPT !.first_author = << <<"a">> >>, !.venue = << <<"v">> >>,
                         !.year = << <<"y">> >>, !.nickname = << <<"n">> >>]}

FilterSeqs == SeqsUpTo(SampleFilters, MaxFilters)

\* Either an argument list for from_args / matches or a slice of filters for
\* merge, and a paper.
InitFilter ==
    /\ \/ args \in FilterArgLists /\ filters = <<>>
       \/ args = <<>> /\ filters \in FilterSeqs \ {<<>>}
    /\ paper \in {NewPaper(1), NewPaper(NumPapers)}
    /\ paper0 = paper
    /\ result = None
    /\ stage = "ready"
    /\ CmdIdle

\* PaperFilter::from_args(&args)
FilterFromArgs ==
    /\ stage = "ready"
    /\ result' = Some(PaperFilter_from_args(args))
    /\ stage' = "parsed"
    /\ UNCHANGED <<args, paper, paper0, filters, cmdvars>>

\* PaperFilter::merge(&filters)
FilterMerge ==
    /\ stage = "ready"
    /\ result' = Some(merge(filters))
    /\ stage' = "merged"
    /\ UNCHANGED <<args, paper, paper0, filters, cmdvars>>

\* filter.matches(&paper), the filter being the one built from args
FilterMatches ==
    /\ stage = "ready"
    /\ PaperFilter_from_args(args).ok
    /\ result' = Some(matches(PaperFilter_from_args(args).filter, paper))
    /\ stage' = "matched"
    /\ UNCHANGED <<args, paper, paper0, filters, cmdvars>>

NextFilter == FilterFromArgs \/ FilterMerge \/ FilterMatches

SpecFilter == InitFilter /\ [][NextFilter]_vars

\* ------------------------------------------------- the grammar of section 4.1
\* The role of each position of an argument list under a keyword set: a
\* keyword ("kw"), the value token that follows a keyword ("val"), or free
\* text ("free").
RECURSIVE RolesFrom(_, _, _, _)
RolesFrom(as, kws, i, acc) ==
    IF i > Len(as) THEN acc
    ELSE IF as[i] \in kws
    THEN IF i + 1 <= Len(as)
         THEN RolesFrom(as, kws, i + 2, acc \o <<"kw", "val">>)
         ELSE acc \o <<"kw">>
    ELSE RolesFrom(as, kws, i + 1, Append(acc, "free"))

Roles(as, kws) == RolesFrom(as, kws, 1, <<>>)

KeywordPositions(as, kws, k) ==
    {i \in 1..Len(as) : Roles(as, kws)[i] = "kw" /\ as[i] = k}

FreePositions(as, kws) == {i \in 1..Len(as) : Roles(as, kws)[i] = "free"}

\* The name under which a position is entered: its keyword, or "title".
RoleName(as, kws, i) == IF Roles(as, kws)[i] = "kw" THEN as[i] ELSE <<"title">>

\* The positions that repeat the role of an earlier position.
RepeatPositions(as, kws) ==
    {i \in 1..Len(as) :
        /\ Roles(as, kws)[i] \in {"kw", "free"}
        /\ \E j \in 1..(i - 1) :
              /\ Roles(as, kws)[j] = Roles(as, kws)[i]
              /\ RoleName(as, kws, j) = RoleName(as, kws, i)}

FirstRepeat(as, kws) ==
    CHOOSE i \in RepeatPositions(as, kws) : \A j \in RepeatPositions(as, kws) : i <= j

\* The value given for keyword k: the token after its first keyword position.
ValueOf(as, kws, k) ==
    LET at == {i \in KeywordPositions(as, kws, k) : i + 1 <= Len(as)}
    IN  IF at = {} THEN None
        ELSE Some(as[(CHOOSE i \in at : \A j \in at : i <= j) + 1])

\* The keywords that occur twice as tokens of the list, wherever they stand.
TwiceAsToken(as, kws) ==
    {k \in kws : Cardinality({i \in 1..Len(as) : as[i] = k}) >= 2}

\* The keywords that stand twice in keyword position.
TwiceAsKeyword(as, kws) ==
    {k \in kws : Cardinality(KeywordPositions(as, kws, k)) >= 2}

Applied == stage = "applied"

Built == stage = "built"

GrammarOf == IF Applied THEN UpdaterKeywords ELSE BuilderKeywords

\* C5: apply_from_args is all-or-nothing: whenever it returns an error the
\* paper it was called on is, in every field, what it was before the call.
C5_ApplyAllOrNothing ==
    (Applied /\ ~result[1].ok) => paper = paper0

\* A failed call whose arguments, up to some point, would have changed the paper.
C5_Witness ==
    /\ Applied
    /\ ~result[1].ok
    /\ \E k \in 1..Len(args) :
          /\ apply_from_args(paper0, SubSeq(args, 1, k)).result.ok
          /\ apply_from_args(paper0, SubSeq(args, 1, k)).paper # paper0

\* C6 (as stated): an argument list in which the same recognized keyword
\* token occurs twice, wherever the two occurrences stand and whatever the
\* other tokens are, fails with PaperDuplicateField naming that keyword.
C6_AnyRepeatedTokenFails ==
    ((Applied \/ Built) /\ TwiceAsToken(args, GrammarOf) # {})
        => /\ ~result[1].ok
           /\ result[1].kind = "PaperDuplicateField"
           /\ result[1].what \in TwiceAsToken(args, GrammarOf)

\* C6 (amended): an argument list in which the same recognized keyword stands
\* twice in keyword position (neither occurrence being the value token that
\* follows a keyword) fails with PaperDuplicateField; the error names the
\* first role of the list that is repeated: that keyword, unless a second
\* free-text token ("title") or another keyword's repetition comes earlier.
C6_RepeatedKeywordFails ==
    ((Applied \/ Built) /\ TwiceAsKeyword(args, GrammarOf) # {})
        => /\ ~result[1].ok
           /\ result[1].kind = "PaperDuplicateField"
           /\ result[1].what = RoleName(args, GrammarOf, FirstRepeat(args, GrammarOf))

\* A call that failed on a keyword standing twice in keyword position, the
\* second time as the last token.
C6_Witness ==
    /\ Applied
    /\ Len(args) >= 3
    /\ args[Len(args)] \in TwiceAsKeyword(args, UpdaterKeywords)
    /\ result[1] = Err("PaperDuplicateField", args[Len(args)])

\* C7: if a recognized keyword is the last token of the list, with no value
\* token after it, the call fails with a MissingValue error naming that
\* keyword: it never succeeds, never takes the keyword as the title and never
\* drops the keyword.
C7_TrailingKeywordFails ==
    ((Applied \/ Built) /\ args # <<>> /\ Roles(args, GrammarOf)[Len(args)] = "kw"
        /\ RepeatPositions(args, GrammarOf) = {})
        => result[1] = Err("MissingValue", args[Len(args)])

\* The labels named by a value: its comma-separated pieces, trimmed.
LabelsIn(value) == IF value = None THEN {} ELSE Range(split_trim(value[1]))

\* C8: after a successful apply_from_args with `is A` and/or `not R` the label
\* set is (old labels with A added) with R removed, in whichever order `is`
\* and `not` stand; a label named in both is absent afterwards, and `is "a, b"`
\* with `not "a"` on a paper without labels leaves exactly {"b"}.
C8_LabelAlgebra ==
    (Applied /\ result[1].ok)
        => LET A == LabelsIn(ValueOf(args, UpdaterKeywords, K_is))
               R == LabelsIn(ValueOf(args, UpdaterKeywords, K_not))
           IN  /\ paper.labels = (paper0.labels \cup A) \ R
               /\ \A l \in A \cap R : l \notin paper.labels
               /\ (args \in {<<K_is, V_ab, K_not, V_a>>, <<K_not, V_a, K_is, V_ab>>}
                      /\ paper0.labels = {})
                     => paper.labels = { <<"b">> }

\* `not "a"` before `is "a, b"` on a paper without labels has left {"b"}.
C8_Witness ==
    /\ Applied
    /\ result[1].ok
    /\ args = <<K_not, V_a, K_is, V_ab>>
    /\ paper0.labels = {}
    /\ paper.labels = { <<"b">> }

\* C9: a successful apply_from_args changes only the fields whose keyword (or
\* free-text token, for the title) is present: the title only if there is a
\* free-text token, nickname only with `as`, authors with `by`, venue with
\* `at`, year with `in`, labels with `is` or `not`; with no arguments the
\* paper is unchanged; filepath, notepath, wikipath and progress never change.
C9_ApplyFrame ==
    (Applied /\ result[1].ok)
        => /\ paper.title # paper0.title => FreePositions(args, UpdaterKeywords) # {}
           /\ paper.nickname # paper0.nickname
                 => KeywordPositions(args, UpdaterKeywords, K_as) # {}
           /\ paper.authors # paper0.authors
                 => KeywordPositions(args, UpdaterKeywords, K_by) # {}
           /\ paper.venue # paper0.venue
                 => KeywordPositions(args, UpdaterKeywords, K_at) # {}
           /\ paper.year # paper0.year
                 => KeywordPositions(args, UpdaterKeywords, K_in) # {}
           /\ paper.labels # paper0.labels
                 => KeywordPositions(args, UpdaterKeywords, K_is)
                       \cup KeywordPositions(args, UpdaterKeywords, K_not) # {}
           /\ args = <<>> => paper = paper0
           /\ (Len(args) = 1 /\ args[1] \notin UpdaterKeywords)
                 => paper = [paper0 EXCEPT !.title = args[1]]
           /\ paper.filepath = paper0.filepath
           /\ paper.notepath = paper0.notepath
           /\ paper.wikipath = paper0.wikipath
           /\ paper.progress = paper0.progress

\* The required fields and the way each is given.
RequiredNames == {"authors", "venue", "year", "title"}

RequiredKeyword(name) ==
    CASE name = "authors" -> K_by [] name = "venue" -> K_at [] name = "year" -> K_in

\* The required fields the list gives no value for.
MissingRequired(as) ==
    {name \in RequiredNames :
        IF name = "title" THEN FreePositions(as, BuilderKeywords) = {}
        ELSE ValueOf(as, BuilderKeywords, RequiredKeyword(name)) = None}

\* The field names that occur in an error text.
NamedIn(text) == Range(text) \cap RequiredNames

\* C10: for every argument list in which no keyword is entered twice (the
\* keywords of the table, "_" of the free-text title among them) and at least
\* one required field is absent, from_args fails with one PaperMissingFields
\* error whose text names exactly the missing required fields, all four when
\* all four are missing, each once and separated by ", ".
C10_AllMissingFieldsNamed ==
    (Built /\ RepeatPositions(args, BuilderKeywords) = {} /\ MissingRequired(args) # {})
        => /\ ~result[1].ok
           /\ result[1].kind = "PaperMissingFields"
           /\ NamedIn(result[1].what) = MissingRequired(args)
           /\ Cardinality({i \in 1..Len(result[1].what) :
                              result[1].what[i] \in RequiredNames})
                 = Cardinality(MissingRequired(args))
           /\ Cardinality({i \in 1..Len(result[1].what) : result[1].what[i] = ", "})
                 = Cardinality(MissingRequired(args)) - 1
           /\ args = <<>> => NamedIn(result[1].what) = RequiredNames

\* A list that gives a title and a venue only: authors and year are reported.
C10_Witness ==
    /\ Built
    /\ RepeatPositions(args, BuilderKeywords) = {}
    /\ MissingRequired(args) = {"authors", "year"}
    /\ result[1].kind = "PaperMissingFields"
    /\ NamedIn(result[1].what) = {"authors", "year"}

\* The one free-text position of a list that has exactly one.
TheFree(as, kws) == CHOOSE i \in FreePositions(as, kws) : TRUE

\* C11: from_args returns a paper only when the arguments after the command
\* name hold exactly one free-text token and a value for each of by, at and in,
\* no keyword standing twice in keyword position; the paper then has that
\* title, venue and year, as authors the non-empty sequence of the trimmed
\* pieces of the by value between commas, in order, progress Unread and
\* neither a notepath nor a wikipath.
C11_BuiltPaper ==
    (Built /\ result[1].ok)
        => LET p == result[1].paper
               kws == BuilderKeywords
           IN  /\ Cardinality(FreePositions(args, kws)) = 1
               /\ \A k \in {K_by, K_at, K_in} : ValueOf(args, kws, k) # None
               /\ TwiceAsKeyword(args, kws) = {}
               /\ p.title = args[TheFree(args, kws)]
               /\ p.venue = ValueOf(args, kws, K_at)[1]
               /\ p.year = ValueOf(args, kws, K_in)[1]
               /\ p.authors = split_trim(ValueOf(args, kws, K_by)[1])
               /\ Len(p.authors) >= 1
               /\ \A k \in 1..Len(p.authors) :
                     p.authors[k] = <<>>
                        \/ (Head(p.authors[k]) # " "
                              /\ p.authors[k][Len(p.authors[k])] # " ")
               /\ p.progress = "Unread"
               /\ p.notepath = None
               /\ p.wikipath = None

\* A paper built from a by value of two pieces, "a, b".
C11_Witness ==
    /\ Built
    /\ result[1].ok
    /\ ValueOf(args, BuilderKeywords, K_by) = Some(V_ab)
    /\ result[1].paper.authors = << <<"a">>, <<"b">> >>
    /\ result[1].paper.progress = "Unread"

\* The title after the call: of the paper built, or of the paper updated.
TitleAfter == IF Built THEN result[1].paper.title ELSE paper.title

\* The smallest position of a non-empty set of positions.
FirstOf(S) == CHOOSE i \in S : \A j \in S : i <= j

\* C12: two or more free-text tokens (neither a keyword nor the value after
\* one) make from_args and apply_from_args fail with PaperDuplicateField
\* naming "title" (no keyword's repetition coming earlier in the list), and
\* after a successful call the title is the free-text token of the list: no
\* later token has taken its place.
C12_FreeTextOnce ==
    (Applied \/ Built)
        => LET free == FreePositions(args, GrammarOf)
           IN  /\ (Cardinality(free) >= 2
                      /\ FirstRepeat(args, GrammarOf) = FirstOf(free \ {FirstOf(free)}))
                     => result[1] = Err("PaperDuplicateField", <<"title">>)
               /\ (free # {} /\ result[1].ok)
                     => TitleAfter = args[FirstOf(free)]

\* The pattern (a literal text) is found somewhere in the text.
Found(pat, text) ==
    \E i \in 0..(Len(text) - Len(pat)) : SubSeq(text, i + 1, i + Len(pat)) = pat

FilterFields == {"title", "nickname", "author", "first_author", "venue", "year"}

\* The texts of a paper that the patterns of a filter field are tried on.
TextsOf(p, field) ==
    CASE field = "title" -> {p.title}
      [] field = "nickname" -> Range(p.nickname)
      [] field = "author" -> Range(p.authors)
      [] field = "first_author" -> IF p.authors = <<>> THEN {} ELSE {p.authors[1]}
      [] field = "venue" -> {p.venue}
      [] field = "year" -> {p.year}

Matched == stage = "matched"

Parsed == stage = "parsed"

Merged == stage = "merged"

\* C13: matches returns true exactly when every field of the filter with a
\* non-empty pattern list has a pattern that matches the paper's value of
\* that field (first_author: the first author only); the filter with six
\* empty lists matches every paper, and a title pattern that is a substring
\* of the paper's title matches it.
C13_MatchesEveryGivenField ==
    Matched
        => LET f == PaperFilter_from_args(args).filter
           IN  result[1] = (\A field \in FilterFields :
                               f[field] = <<>>
                                  \/ \E k \in 1..Len(f[field]), text \in TextsOf(paper, field) :
                                        Found(f[field][k], text))

\* The positions of a filter's argument list whose item goes to the field, in
\* argument order, and the items themselves.
ItemPositions(as, field) ==
    SelectSeq([i \in 1..Len(as) |-> i],
              LAMBDA i : \/ /\ Roles(as, FilterKeywords)[i] = "kw"
                            /\ i + 1 <= Len(as)
                            /\ \/ field = "nickname" /\ as[i] = K_as
                               \/ field = "author" /\ as[i] = K_by
                               \/ field = "first_author" /\ as[i] = K_by1
                               \/ field = "venue" /\ as[i] \in {K_at, K_on}
                               \/ field = "year" /\ as[i] = K_in
                         \/ /\ Roles(as, FilterKeywords)[i] = "free"
                            /\ field = "title")

ItemsFor(as, field) ==
    LET pos == ItemPositions(as, field)
    IN  [k \in 1..Len(pos) |->
            IF Roles(as, FilterKeywords)[pos[k]] = "kw" THEN as[pos[k] + 1] ELSE as[pos[k]]]

\* Every keyword of the list has a value after it.
EveryKeywordHasValue(as) ==
    \A i \in 1..Len(as) : Roles(as, FilterKeywords)[i] = "kw" => i + 1 <= Len(as)

\* C14 (as stated): PaperFilter::from_args never rejects a repeated keyword:
\* for every list in which each keyword is followed by a value that compiles
\* as a pattern it succeeds, and each field's list holds, in argument order,
\* one pattern per occurrence of the field's keyword, title one per token that
\* is neither a keyword nor a keyword's value.
C14_KeywordValuesCompile ==
    (Parsed /\ EveryKeywordHasValue(args)
        /\ \A i \in 1..Len(args) : Roles(args, FilterKeywords)[i] = "val" => RegexValid(args[i]))
        => /\ result[1].ok
           /\ \A field \in FilterFields : result[1].filter[field] = ItemsFor(args, field)

\* C14 (amended): for every list in which each keyword is followed by a value
\* and every value and every free-text token compiles as a pattern,
\* from_args succeeds, a repeated keyword included, and each field's list
\* holds, in argument order, one pattern per occurrence of the field's
\* keyword (as: nickname, by: author, by1: first_author, at or on: venue,
\* in: year), title one per free-text token.
C14_AllItemsCompile ==
    (Parsed /\ EveryKeywordHasValue(args)
        /\ \A i \in 1..Len(args) :
              Roles(args, FilterKeywords)[i] \in {"val", "free"} => RegexValid(args[i]))
        => /\ result[1].ok
           /\ \A field \in FilterFields : result[1].filter[field] = ItemsFor(args, field)

\* `by t by in`: the keyword by twice, two author patterns in argument order.
C14_Witness ==
    /\ Parsed
    /\ args = <<K_by, P_t, K_by, K_in>>
    /\ result[1].ok
    /\ result[1].filter.author = <<P_t, K_in>>

\* The lists of one field of the filters, one after the other.
FieldConcat(fs, field) == Flatten([k \in 1..Len(fs) |-> fs[k][field]])

\* C15: merge is field-wise concatenation in input order: each field of the
\* merged filter is the concatenation of the inputs' lists of that field;
\* merge of no filter is the all-empty filter, merge of one filter is that
\* filter, merging [merge(xs), merge(ys)] equals merging xs followed by ys,
\* and the call leaves the input filters as they were.
C15_MergeConcatenates ==
    [][(stage = "ready" /\ stage' = "merged")
          => /\ \A field \in FilterFields :
                   result'[1][field] = FieldConcat(filters, field)
             /\ filters = <<>> => result'[1] = EmptyFilter
             /\ Len(filters) = 1 => result'[1] = filters[1]
             /\ \A n \in 0..Len(filters) :
                   merge(<<merge(SubSeq(filters, 1, n)),
                           merge(SubSeq(filters, n + 1, Len(filters)))>>) = result'[1]
             /\ filters' = filters]_vars

\* Three filters merged, the first and the last with different title patterns.
C15_Witness ==
    /\ Merged
    /\ Len(filters) = 3
    /\ filters[1].title = <<P_t>>
    /\ filters[3].title = << <<"s">> >>
    /\ result[1].title = <<P_t, <<"s">> >>
    /\ result[1].author = filters[3].author

\* C16: in a line of two or more segments a segment that is followed by
\* another one and returns an output other than Papers (the Message of mark,
\* unmark, current and man, the None of vimwiki and of sort with an
\* unrecognised three-argument form) makes the line fail with InvalidCommand
\* without another handler being entered; and whenever the handler of a
\* following segment is entered, the segment before it has returned Papers
\* and the handler's input holds exactly that list.
C16_OnlyPapersArePiped ==
    [][/\ (lineres = None /\ pc = "done" /\ ReturnedOk /\ output[1].kind # "Papers"
              /\ seg < Len(line))
          => /\ lineres' = Some(Err("InvalidCommand", <<>>))
             /\ ncmds' = ncmds
             /\ seg' = seg
             /\ papers' = papers
       /\ (seg > 0 /\ seg' = seg + 1)
          => /\ ReturnedOk
             /\ output[1].kind = "Papers"
             /\ input'.papers = Some(output[1].list)
             /\ input'.args = line[seg + 1]
       /\ lineres # None => (ncmds' = ncmds /\ seg' = seg)]_vars

\* `ls | sort x read | ...`: sort returned None and the line failed before
\* its third segment.
C16_Witness ==
    /\ Len(line) = 3
    /\ seg = 2
    /\ cmd = "sort"
    /\ input.papers # None
    /\ output = Some(NoOutput)
    /\ lineres = Some(Err("InvalidCommand", <<>>))
    /\ ncmds = 2

SelectionCmds == MarkCmds \cup {"vimwiki", "sort"}

\* C17: mark, unmark, current, vimwiki and sort, entered with no piped list
\* and arguments that make a filter, take as their selection the list that ls
\* yields over the whole store for those arguments, and do not fail for the
\* want of a list: they return Ok, or the error of a later step (a declined
\* prompt, a wiki file that could not be created).
C17_SelectionFallsBackToLs ==
    (cmd \in SelectionCmds /\ input.papers = None
        /\ PaperFilter_from_args(Tail(input.args)).ok)
        => /\ ls_execute(input, papers0).kind = "Papers"
           /\ paper_list = ls_execute(input, papers0).list
           /\ Returned => (output[1].ok \/ output[1].kind \in {"Cancelled", "Io"})

\* Argument lists for apply_from_args: a title, a nickname, labels, a trailing
\* keyword.
UpdateSamples == {<<V_a>>, <<K_as, V_a>>, <<K_is, V_ab, K_not, V_a>>, <<K_by>>}

\* C18: in every step of every sequence of commands a paper's progress
\* changes only when the step completes an accepted mark, unmark or current
\* whose selection holds the paper, or creates the paper's wiki file; so a
\* step of sort or man, a declined prompt and a command returning an error
\* change no progress, and neither does apply_from_args on any paper of the
\* store.
C18_ProgressFrame ==
    [][/\ \A i \in 1..Len(papers) :
             papers'[i].progress # papers[i].progress
                => \/ /\ cmd' \in MarkCmds
                      /\ pc' = "done"
                      /\ output'[1].ok
                      /\ i \in Range(paper_list')
                      /\ Len(paper_list') > 1 => answers' = <<TRUE>>
                   \/ /\ cmd' = "vimwiki"
                      /\ papers'[i].wikipath # None
                      /\ papers'[i].wikipath[1] \in wikifiles' \ wikifiles
       /\ \A i \in 1..Len(papers) :
             (papers'[i] # papers[i] \/ ncmds = 0)
                => \A as \in UpdateSamples :
                      apply_from_args(papers'[i], as).paper.progress = papers'[i].progress]_vars

\* current was confirmed for two papers and changed the progress of one of
\* them, the other having been InProgress already.
C18_Witness ==
    /\ cmd = "current"
    /\ pc = "done"
    /\ answers = <<TRUE>>
    /\ Len(paper_list) = 2
    /\ papers0[paper_list[1]].progress = "InProgress"
    /\ papers0[paper_list[2]].progress # "InProgress"
    /\ papers[paper_list[2]].progress = "InProgress"

\* The wiki file of paper i was created by the running command.
WikiCreated(i) ==
    /\ papers[i].wikipath # None
    /\ papers[i].wikipath[1] \in wikifiles \ wikifiles0

\* C19: when vimwiki creates the wiki file of a selected paper (wikipath with
\* create = true finding no file) that paper's progress is InProgress
\* afterwards; a selected paper whose wiki file existed already keeps the
\* progress it had.
C19_WikiCreationStartsReading ==
    cmd = "vimwiki"
        => \A i \in 1..Len(papers) :
              /\ WikiCreated(i) => papers[i].progress = "InProgress"
              /\ ~WikiCreated(i) => papers[i].progress = papers0[i].progress

\* C20: a vimwiki that opens the wikis of its n selected papers without batch
\* mode spawns n editor processes, one per wiki in order, each waited for
\* before the next is spawned, so that at most one runs at any time; in batch
\* mode it spawns exactly one process, which receives all n paths.
C20_EditorsOneAtATime ==
    (cmd = "vimwiki" /\ pc = "done" /\ ReturnedOk)
        => IF editor_batch
           THEN /\ Len(spawned) = 1
                /\ spawned[1].paths = wikis
                /\ Len(wikis) = Len(paper_list)
           ELSE /\ Len(spawned) = Len(paper_list)
                /\ \A k \in 1..Len(spawned) : spawned[k].paths = <<wikis[k]>>
                /\ \A k \in 1..(Len(spawned) - 1) : spawned[k].block

\* C21: man with exactly one argument after the command name returns a
\* Message with the help text of that argument when it is one of the fixed
\* subjects and fails with ManUnknownSubject carrying exactly that argument
\* otherwise; with any other number of arguments it fails with
\* ManInvalidArgument; in every case the store is what it was.
C21_ManSubject ==
    cmd = "man"
        => /\ pc = "done"
           /\ papers = papers0
           /\ wikifiles = wikifiles0
           /\ Len(input.args) # 2 => output = Some(Err("ManInvalidArgument", <<>>))
           /\ (Len(input.args) = 2 /\ input.args[2] \in ManSubjects)
                 => /\ ReturnedOk
                    /\ output[1].kind = "Message"
                    /\ output[1].man = input.args[2]
           /\ (Len(input.args) = 2 /\ input.args[2] \notin ManSubjects)
                 => output = Some(Err("ManUnknownSubject", input.args[2]))

\* `man sort`: sort is not among the subjects.
C21_Witness ==
    /\ cmd = "man"
    /\ input.args = <<C_man, C_sort>>
    /\ output = Some(Err("ManUnknownSubject", C_sort))
    /\ papers = papers0

HandlerCmds == MarkCmds \cup {"sort", "man", "vimwiki"}

\* C22: mark, unmark, current, sort, man and vimwiki neither insert, remove
\* nor reorder papers: the store keeps its length and every position keeps
\* its paper (only progress and wikipath may differ); the selection a handler
\* works on and the list sort returns hold only indices of its input list,
\* so a list of valid indices stays one from segment to segment and no
\* handler indexes the store outside its bounds.
C22_IndicesStayValid ==
    cmd \in HandlerCmds
        => /\ Len(papers) = Len(papers0)
           /\ \A i \in 1..Len(papers) :
                 papers[i] = [papers0[i] EXCEPT !.progress = papers[i].progress,
                                                !.wikipath = papers[i].wikipath]
           /\ Range(paper_list) \subseteq 1..Len(papers)
           /\ input.papers # None => Range(paper_list) \subseteq Range(input.papers[1])
           /\ (ReturnedOk /\ output[1].kind = "Papers")
                 => /\ input.papers # None
                    /\ Range(output[1].list) \subseteq Range(input.papers[1])
                    /\ Range(output[1].list) \subseteq 1..Len(papers)

\* sort by a status returned one of the two papers piped to it.
C22_Witness ==
    /\ cmd = "sort"
    /\ ReturnedOk
    /\ output[1].kind = "Papers"
    /\ Len(input.papers[1]) = 2
    /\ Len(output[1].list) = 1
    /\ papers = papers0

\* How often an index occurs in a list.
Count(list, i) == Cardinality({k \in 1..Len(list) : list[k] = i})

\* sort was given a piped list and no arguments, or `by` and a status.
SortForm == Len(input.args) = 1 \/ (Len(input.args) = 3 /\ input.args[2] = K_by)

\* C23: for every piped list, `sort` and `sort by <status>` return a Papers
\* list that is a reordering of the input: every index occurs in it as often
\* as in the input, none dropped and none added; `sort` orders it by title.
C23_SortIsReordering ==
    (cmd = "sort" /\ input.papers # None /\ SortForm)
        => /\ ReturnedOk
           /\ output[1].kind = "Papers"
           /\ \A i \in 1..Len(papers) :
                 Count(output[1].list, i) = Count(input.papers[1], i)
           /\ Len(input.args) = 1
                 => \A k \in 1..(Len(output[1].list) - 1) :
                       ~StrLess(papers[output[1].list[k + 1]].title,
                                papers[output[1].list[k]].title)

\* What sort without arguments returns for the piped list l.
SortedOf(l) == sort_output([papers |-> Some(l), args |-> <<C_sort>>], papers)

\* C24: sort without arguments returns the distinct indices of its piped
\* list in ascending order of title, equal titles in ascending order of
\* index; the result is the same for every order of the input, sorting the
\* result again returns it unchanged, and the store is not modified.
C24_SortByTitle ==
    (cmd = "sort" /\ input.papers # None /\ Len(input.args) = 1)
        => LET in == input.papers[1]
               out == output[1].list
           IN  /\ ReturnedOk
               /\ output[1].kind = "Papers"
               /\ Range(out) = Range(in)
               /\ Len(out) = Cardinality(Range(in))
               /\ \A k \in 1..(Len(out) - 1) :
                     \/ StrLess(papers[out[k]].title, papers[out[k + 1]].title)
                     \/ /\ papers[out[k]].title = papers[out[k + 1]].title
                        /\ out[k] < out[k + 1]
               /\ \A l \in PipedLists : Range(l) = Range(in) => SortedOf(l) = output[1]
               /\ SortedOf(out) = output[1]
               /\ papers = papers0
               /\ wikifiles = wikifiles0

\* The papers titled "t" and "s" piped in that order come back as "s", "t".
C24_Witness ==
    /\ cmd = "sort"
    /\ input = [papers |-> Some(<<2, 1>>), args |-> <<C_sort>>]
    /\ papers[2].title = <<"t">>
    /\ papers[1].title = <<"s">>
    /\ output = Some(Papers(<<1, 2>>))

\* The progress the papers have when the session begins.
InitialProgress(i) == NewPaper(i).progress

\* C25: after any sequence of non-cancelled mark, unmark and current over
\* valid selections, overlapping and with duplicates as they may be, each
\* paper has the progress given by the last command of the sequence whose
\* selection held it (Read, Unread, InProgress), or its initial progress if
\* none did; a command entered for a selection whose papers all have its
\* value already, as when it is repeated, leaves the store as it is.
C25_LastWriterWins ==
    [][/\ pc' = "done"
          => \A i \in 1..Len(papers') :
                papers'[i].progress =
                   IF lastw'[i] = None THEN InitialProgress(i) ELSE lastw'[i][1]
       /\ (pc' = "done"
              /\ \A k \in 1..Len(paper_list') :
                    papers0'[paper_list'[k]].progress = Written(cmd'))
          => papers' = papers0'
       /\ (pc = "done" /\ ncmds' = ncmds + 1 /\ cmd' = cmd /\ input' = input)
          => papers' = papers]_vars

\* Two commands with overlapping selections: papers 1 and 2 were unmarked,
\* then paper 2 (piped twice) was set to current; paper 3 was never selected.
C25_Witness ==
    /\ ncmds = 2
    /\ pc = "done"
    /\ cmd = "current"
    /\ paper_list = <<2, 2>>
    /\ lastw = <<Some("Unread"), Some("InProgress"), None>>
    /\ papers[1].progress = "Unread"
    /\ papers[2].progress = "InProgress"
    /\ papers[3].progress = InitialProgress(3)

====
